---- MODULE Spec2Model ----
(***************************************************************************)
(* State-machine model of the noise-repellent denoising engine:            *)
(*   - the STFT framer          (src/src/stft_processor.c)                 *)
(*   - the spectral processor   (src/src/spectral_processor.c)             *)
(*   - the LV2 state save/restore (src/src/noise_repellent_state.c)        *)
(*                                                                         *)
(* Numbers.  The C code computes in float.  The model computes exactly in  *)
(* the field Q(sqrt 2): a number is a triple <<a, b, d>> standing for      *)
(* (a + b*s)/d with s = sqrt(2)/2, d > 0 and gcd(a, b, d) = 1.  This is    *)
(* the smallest field that holds the Vorbis window of a 4-point frame      *)
(* (0, s, 1, s) exactly, so that the overlap-add of the model has exactly  *)
(* unit gain.  Float rounding is not modelled; FLT_MIN, which is below the *)
(* resolution of every value the model holds, is a positive infinitesimal. *)
(***************************************************************************)
EXTENDS Integers, Sequences, FiniteSets, TLC

-----------------------------------------------------------------------------
(* Exact arithmetic in Q(sqrt 2)                                           *)

Abs(x) == IF x < 0 THEN -x ELSE x

RECURSIVE Gcd(_, _)
Gcd(x, y) == IF y = 0 THEN x ELSE Gcd(y, x % y)

Norm(a, b, d) ==
  LET g == Gcd(Gcd(Abs(a), Abs(b)), d)
  IN  <<a \div g, b \div g, d \div g>>

Rat(n, d) == Norm(n, 0, d)
Num(n) == <<n, 0, 1>>
Zero == Num(0)
One == Num(1)
\* s = sqrt(2)/2 = sin(pi/4)
SqrtHalf == <<0, 1, 1>>

Add(x, y) == Norm(x[1] * y[3] + y[1] * x[3], x[2] * y[3] + y[2] * x[3], x[3] * y[3])
Neg(x) == <<-x[1], -x[2], x[3]>>
Sub(x, y) == Add(x, Neg(y))
\* (a1 + b1 s)(a2 + b2 s) = a1 a2 + b1 b2 / 2 + (a1 b2 + a2 b1) s
Mul(x, y) ==
  Norm(2 * x[1] * y[1] + x[2] * y[2], 2 * (x[1] * y[2] + x[2] * y[1]), 2 * x[3] * y[3])

\* sign of a + b s: when a and b disagree compare a^2 with b^2 / 2
Sign(x) ==
  LET a == x[1]
      b == x[2]
  IN  IF a = 0 /\ b = 0 THEN 0
      ELSE IF a >= 0 /\ b >= 0 THEN 1
      ELSE IF a <= 0 /\ b <= 0 THEN -1
      ELSE IF a > 0 THEN (IF 2 * a * a > b * b THEN 1 ELSE -1)
      ELSE (IF b * b > 2 * a * a THEN 1 ELSE -1)

\* 1/x for x # 0: d (a - b s) / (a^2 - b^2 / 2)
Inv(x) ==
  LET m == 2 * x[1] * x[1] - x[2] * x[2]
  IN  IF m > 0 THEN Norm(2 * x[3] * x[1], -(2 * x[3] * x[2]), m)
      ELSE Norm(-(2 * x[3] * x[1]), 2 * x[3] * x[2], -m)
Div(x, y) == Mul(x, Inv(y))

Lt(x, y) == Sign(Sub(x, y)) < 0
Le(x, y) == Sign(Sub(x, y)) <= 0
Max(x, y) == IF Lt(x, y) THEN y ELSE x
Min(x, y) == IF Lt(y, x) THEN y ELSE x

\* an array in memory: the function is evaluated once, when it is built
Array(f) == IF f = <<>> THEN f ELSE f

-----------------------------------------------------------------------------
(* Sizes.  The frame size and overlap factor are constructor arguments;    *)
(* the model runs 4-point frames with overlap 2 and 4.                     *)

FftSizes == {4}
\* frame sizes of the engines whose state is saved and restored
StateFftSizes == {2, 4}
OverlapFactors == {2, 4}
SizeofFloat == 4

\* bounds of the exploration
MaxSamples == 4
MaxBlock == 2
MaxFrames == 2
MaxDrySamples == 6
MaxStateCalls == 3
MaxLearned == 3
MaxMaskingCalls == 2

\* input samples fed by the host, and the values uninitialised heap may hold
Samples == {Zero, One}
Junk == {Zero, One}

\* FLT_MIN: the positive infinitesimal, the only triple with d = 0
FLT_MIN == <<0, 0, 0>>
\* the part of x above float resolution
Std(x) == IF x = FLT_MIN THEN Zero ELSE x
\* x > FLT_MIN
GtFltMin(x) == Sign(Std(x)) > 0
\* x + FLT_MIN in float: absorbed by every x above float resolution
AddFltMin(x) == IF Std(x) = Zero THEN FLT_MIN ELSE x

VARIABLES
  stft,                \* struct STFTProcessor
  sp,                  \* struct SpectralProcessor
  noise_profile,       \* the engine's noise profile, noise[0..H]
  frames_learned,      \* the noise estimator's count of learned frames
  denoise_parameters,  \* the parameter block the host writes
  plugin_state,        \* struct PluginState and its NoiseProfile
  host,                \* the host's key/value store and the latest state call
  heap,                \* what the memory returned by malloc held (history)
  input_log,           \* every input sample consumed so far (history)
  output_log,          \* every output sample produced so far (history)
  last_frames,         \* one record per frame callback of the latest call (history)
  run_call,            \* the call of the sample loop in progress, when taken in steps
  masking              \* struct MaskingEstimator and the thresholds it last computed

vars == <<stft, sp, noise_profile, frames_learned, denoise_parameters,
          plugin_state, host, heap, input_log, output_log, last_frames,
          run_call, masking>>

-----------------------------------------------------------------------------
(* Spectral processor: the frame callback                                  *)

WHITENING_FLOOR == Rat(1, 50)
\* tau = 1 - expf(-2 pi 25 64 / sample_rate): a rate in (0, 1)
tau == Rat(1, 2)
\* max_decay_rate = expf(-1000 / (1000 sample_rate / hop)): a rate in (0, 1)
max_decay_rate == Rat(1, 2)

Bins(H) == 0..H
ZeroBins(H) == Array([k \in 0..H |-> Zero])

spectral_processor_initialize(N) ==
  [ fft_size |-> N,
    half_fft_size |-> N \div 2,
    fft_spectrum |-> Array([k \in 0..(N - 1) |-> Zero]),
    processed_fft_spectrum |-> ZeroBins(N \div 2),
    wet_dry_target |-> Zero,
    wet_dry |-> Zero,
    gain_spectrum |-> ZeroBins(N \div 2),
    residual_spectrum |-> ZeroBins(N \div 2),
    denoised_spectrum |-> ZeroBins(N \div 2),
    residual_max_spectrum |-> ZeroBins(N \div 2),
    whitening_window_count |-> 0 ]

\* power of each bin of a halfcomplex spectrum: real at k, imaginary at N - k
get_fft_power_spectrum(X, N, H) ==
  Array([k \in 0..H |->
     IF k = 0 \/ k = H THEN Mul(X[k], X[k])
     ELSE Add(Mul(X[k], X[k]), Mul(X[N - k], X[N - k]))])

\* an emptiness test that looks at bin 0 as well: the variant against which
\* the range of the test is sensitive
is_empty_all_bins(spectrum, H) == \A k \in 0..H : ~GtFltMin(spectrum[k])


is_empty(spectrum, H) == \A k \in 1..H : ~GtFltMin(spectrum[k])

\* a crossfade that steps twice as far as the distance to the target: the
\* variant against which the monotony of the crossfade is sensitive
fft_denoiser_update_wetdry_target_overshoot(s, enable) ==
  LET target == IF enable THEN One ELSE Zero
      wd == Std(s.wet_dry)
  IN [s EXCEPT !.wet_dry_target = target,
               !.wet_dry = AddFltMin(Add(wd, Mul(Num(2), Sub(target, wd))))]


fft_denoiser_update_wetdry_target(s, enable) ==
  LET target == IF enable THEN One ELSE Zero
      wd == Std(s.wet_dry)
  IN [s EXCEPT !.wet_dry_target = target,
               !.wet_dry = AddFltMin(Add(wd, Mul(tau, Sub(target, wd))))]

fft_denoiser_soft_bypass(s) ==
  LET wd == Std(s.wet_dry)
  IN [s EXCEPT !.processed_fft_spectrum =
        Array([k \in 0..s.half_fft_size |->
           IF k >= 1
             THEN Add(Mul(Sub(One, wd), s.fft_spectrum[k]),
                      Mul(s.processed_fft_spectrum[k], wd))
             ELSE s.processed_fft_spectrum[k]])]

get_denoised_spectrum(s) ==
  [s EXCEPT !.denoised_spectrum =
     Array([k \in 0..s.half_fft_size |->
        IF k >= 1 THEN Mul(s.fft_spectrum[k], s.gain_spectrum[k])
        ELSE s.denoised_spectrum[k]])]

\* a whitening whose running maximum has no floor: the variant against which
\* the floor of residual_max is sensitive
residual_spectrum_whitening_unfloored(s, whitening_factor) ==
  LET H == s.half_fft_size
      count == s.whitening_window_count + 1
      rmax == Array([k \in 0..H |->
                 IF k >= 1
                   THEN IF count > 1
                          THEN Max(s.residual_spectrum[k],
                                   Mul(s.residual_max_spectrum[k], max_decay_rate))
                          ELSE s.residual_spectrum[k]
                   ELSE s.residual_max_spectrum[k]])
  IN [s EXCEPT
        !.whitening_window_count = count,
        !.residual_max_spectrum = rmax,
        !.residual_spectrum =
           Array([k \in 0..H |->
              IF k >= 1 /\ GtFltMin(s.residual_spectrum[k])
                THEN Add(Mul(Sub(One, whitening_factor), s.residual_spectrum[k]),
                         Mul(whitening_factor, Div(s.residual_spectrum[k], rmax[k])))
                ELSE s.residual_spectrum[k]])]


residual_spectrum_whitening(s, whitening_factor) ==
  LET H == s.half_fft_size
      count == s.whitening_window_count + 1
      rmax == Array([k \in 0..H |->
                 IF k >= 1
                   THEN IF count > 1
                          THEN Max(Max(s.residual_spectrum[k], WHITENING_FLOOR),
                                   Mul(s.residual_max_spectrum[k], max_decay_rate))
                          ELSE Max(s.residual_spectrum[k], WHITENING_FLOOR)
                   ELSE s.residual_max_spectrum[k]])
  IN [s EXCEPT
        !.whitening_window_count = count,
        !.residual_max_spectrum = rmax,
        !.residual_spectrum =
           Array([k \in 0..H |->
              IF k >= 1 /\ GtFltMin(s.residual_spectrum[k])
                THEN Add(Mul(Sub(One, whitening_factor), s.residual_spectrum[k]),
                         Mul(whitening_factor, Div(s.residual_spectrum[k], rmax[k])))
                ELSE s.residual_spectrum[k]])]

get_residual_spectrum(s, whitening_factor) ==
  LET s1 == [s EXCEPT !.residual_spectrum =
               Array([k \in 0..s.half_fft_size |->
                  IF k >= 1 THEN Sub(s.fft_spectrum[k], s.denoised_spectrum[k])
                  ELSE s.residual_spectrum[k]])]
  IN IF Sign(whitening_factor) > 0
       THEN residual_spectrum_whitening(s1, whitening_factor)
       ELSE s1

\* a final mix that leaves the residual out: the variant against which the
\* transparency of reduction_amount = 1 is sensitive
get_final_spectrum_denoised_only(s, residual_listen, reduction_amount) ==
  [s EXCEPT !.processed_fft_spectrum =
     Array([k \in 0..s.half_fft_size |->
        IF k >= 1
          THEN IF residual_listen THEN s.residual_spectrum[k] ELSE s.denoised_spectrum[k]
          ELSE s.processed_fft_spectrum[k]])]

get_final_spectrum(s, residual_listen, reduction_amount) ==
  [s EXCEPT !.processed_fft_spectrum =
     Array([k \in 0..s.half_fft_size |->
        IF k >= 1
          THEN IF residual_listen
                 THEN s.residual_spectrum[k]
                 ELSE Add(s.denoised_spectrum[k],
                          Mul(s.residual_spectrum[k], reduction_amount))
          ELSE s.processed_fft_spectrum[k]])]

\* memcpy of nbytes into a float array: the floats wholly covered take the
\* source's value; a float covered in part keeps its high-order bytes (sign,
\* exponent, leading mantissa), that is its value to the model's resolution
memcpy_floats(dst, src, nbytes) ==
  Array([k \in DOMAIN dst |-> IF k < nbytes \div SizeofFloat THEN src[k] ELSE dst[k]])

-----------------------------------------------------------------------------
(* Noise estimator and gain estimator                                      *)

is_noise_estimation_available(count) == count > 0

\* an estimator that keeps the sum of the learned frames instead of their mean
noise_estimation_run_sum(noise, count, power) ==
  [noise_profile |-> Array([k \in DOMAIN noise |-> Add(noise[k], power[k])]),
   frames_learned |-> count + 1]


\* learn(power): the first frame is copied, later frames enter a running mean
noise_estimation_run(noise, count, power) ==
  IF count = 0
    THEN [noise_profile |-> power, frames_learned |-> 1]
    ELSE [noise_profile |->
            Array([k \in DOMAIN noise |->
               Div(Add(Mul(Num(count - 1), noise[k]), power[k]), Num(count))]),
          frames_learned |-> count + 1]

\* the guard of the Wiener division, max(power, epsilon)
Epsilon == Rat(1, 1000)

\* release_coef = exp(-1 / (release_time * SR / hop)): 0 for a zero release
\* time, in (0, 1) for a positive one, above 1 for a negative one
release_coefficient(release_time) ==
  IF Sign(release_time) = 0 THEN Zero
  ELSE IF Sign(release_time) > 0 THEN Rat(1, 2)
  ELSE Num(2)

clamp(x, lo, hi) == Max(lo, Min(x, hi))

\* Wiener gain of one bin against the rescaled, oversubtracted noise
raw_gain(power_k, noise_k, noise_rescale, alpha) ==
  Max(Zero, Sub(One, Div(Mul(Mul(noise_rescale, alpha), noise_k), Max(power_k, Epsilon))))

\* during a transient the raw gain is biased toward 1
transient_bias(g, transient) == IF transient THEN Div(Add(g, One), Num(2)) ELSE g

\* release smoothing against the gain of the previous frame
release_smoothing(g, prev_gain_k, release_coef) == Max(g, Mul(release_coef, prev_gain_k))

\* the estimator without its final clamp to [0, 1]
gain_estimation_run_unclamped(power, noise, prev_gain, p, o) ==
  Array([k \in DOMAIN power |->
     release_smoothing(
       transient_bias(raw_gain(power[k], noise[k], p.noise_rescale, o.alpha), o.transient),
       prev_gain[k], release_coefficient(p.release_time))])

\* o.alpha stands for the oversubtraction factor clamp(map(M[k]), ..) that the
\* masking thresholds yield, o.transient for the outcome of transient detection
gain_estimation_run(power, noise, prev_gain, p, o) ==
  Array([k \in DOMAIN power |->
     clamp(release_smoothing(
             transient_bias(raw_gain(power[k], noise[k], p.noise_rescale, o.alpha),
                            o.transient),
             prev_gain[k], release_coefficient(p.release_time)),
           Zero, One)])

-----------------------------------------------------------------------------
(* spectral_processor_run: one frame                                       *)

\* variants of the learn branch: one that ignores learn_noise, one that
\* ignores the emptiness of the frame
learn_branch_any_mode(empty, learn_noise) == ~empty
learn_branch_any_frame(empty, learn_noise) == learn_noise

\* the branch of the frame that feeds the noise estimator
learn_branch(empty, learn_noise) == ~empty /\ learn_noise

\* the branch of the frame that builds the denoised spectrum
apply_branch(empty, learn_noise, available) == ~empty /\ ~learn_noise /\ available

\* the number of bytes of processed_fft_spectrum copied back to the caller
write_back_bytes(H) == SizeofFloat * H + 1

\* the estimator's state after the frame: learned from power, or left alone
learn_step(e, learn, power) ==
  IF learn THEN noise_estimation_run(e.noise_profile, e.frames_learned, power)
  ELSE [noise_profile |-> e.noise_profile, frames_learned |-> e.frames_learned]

\* the apply path: gains, denoised, residual and final spectrum
apply_step(s, e, apply, power, p, o) ==
  IF apply
    THEN get_final_spectrum(
           get_residual_spectrum(
             get_denoised_spectrum(
               [s EXCEPT !.gain_spectrum =
                  gain_estimation_run(power, e.noise_profile, s.gain_spectrum, p, o)]),
             p.whitening_factor),
           p.residual_listen, p.reduction_amount)
    ELSE s

\* the end of the frame: the processed spectrum is copied back to the caller
frame_result(e, p, buf, empty, learn, apply, est, s2, s3, s4, out) ==
  [ e |-> [sp |-> s4, noise_profile |-> est.noise_profile,
           frames_learned |-> est.frames_learned],
    buf |-> out,
    frame |-> [ params |-> p, input |-> buf, output |-> out,
                empty |-> empty, learned |-> learn, applied |-> apply,
                prev_gain |-> s2.gain_spectrum,
                gain |-> s3.gain_spectrum, denoised |-> s3.denoised_spectrum,
                residual |-> s3.residual_spectrum,
                processed |-> s3.processed_fft_spectrum,
                noise_before |-> e.noise_profile, noise_after |-> est.noise_profile,
                count_before |-> e.frames_learned, count_after |-> est.frames_learned ] ]

frame_write_back(e, p, buf, empty, learn, apply, est, s2, s3, s4) ==
  frame_result(e, p, buf, empty, learn, apply, est, s2, s3, s4,
               memcpy_floats(buf, s4.processed_fft_spectrum, write_back_bytes(s4.half_fft_size)))

frame_mix(e, p, buf, empty, learn, apply, est, s2, s3) ==
  frame_write_back(e, p, buf, empty, learn, apply, est, s2, s3, fft_denoiser_soft_bypass(s3))

frame_branches(e, p, o, buf, s2, power, empty, learn, apply) ==
  frame_mix(e, p, buf, empty, learn, apply, learn_step(e, learn, power), s2,
            apply_step(s2, e, apply, power, p, o))

frame_guards(e, p, o, buf, s2, power, empty) ==
  frame_branches(e, p, o, buf, s2, power, empty,
                 learn_branch(empty, p.learn_noise),
                 apply_branch(empty, p.learn_noise,
                              is_noise_estimation_available(e.frames_learned)))

frame_power(e, p, o, buf, s2, power) ==
  frame_guards(e, p, o, buf, s2, power, is_empty(power, s2.half_fft_size))

frame_input(e, p, o, buf, s2) ==
  frame_power(e, p, o, buf, s2,
              get_fft_power_spectrum(s2.fft_spectrum, s2.fft_size, s2.half_fft_size))

\* e: [sp, noise_profile, frames_learned]; p: the parameter block; o: what the
\* masking model and the transient detector answer; buf: the caller's
\* halfcomplex buffer.  Returns the new state, the buffer as handed back and a
\* record of the frame.
spectral_processor_run(e, p, o, buf) ==
  frame_input(e, p, o, buf,
              [fft_denoiser_update_wetdry_target(e.sp, p.enable) EXCEPT !.fft_spectrum = buf])

-----------------------------------------------------------------------------
(* STFT framer                                                             *)

\* vorbis(k, N) = sin(pi/2 * sin^2(pi k / N)) at the quarter points of the frame
vorbis(k, N) ==
  CASE 4 * k = 0 -> Zero
    [] 4 * k = N -> SqrtHalf
    [] 4 * k = 2 * N -> One
    [] 4 * k = 3 * N -> SqrtHalf

fft_window(N) == Array([k \in 0..(N - 1) |-> vorbis(k, N)])

RECURSIVE SumTo(_, _)
SumTo(f, n) == IF n < 0 THEN Zero ELSE Add(f[n], SumTo(f, n - 1))

\* overlap_scale_factor = sum(input_window[i] * output_window[i]) / fft_size
stft_processor_pre_and_post_window(in_w, out_w, N) ==
  Div(SumTo(Array([i \in 0..(N - 1) |-> Mul(in_w[i], out_w[i])]), N - 1), Num(N))

\* memset(buf, 0, nbytes) on a float array fresh from malloc: the first
\* nbytes / sizeof(float) floats are zero, the others keep what the heap held
stft_processor_reset(len, nbytes, junk) ==
  Array([k \in 0..(len - 1) |-> IF k < nbytes \div SizeofFloat THEN Zero ELSE junk])

stft_processor_initialize(N, O, junk) ==
  [ fft_size |-> N,
    half_fft_size |-> N \div 2,
    overlap_factor |-> O,
    hop |-> N \div O,
    input_latency |-> N - N \div O,
    read_position |-> N - N \div O,
    input_window |-> fft_window(N),
    output_window |-> fft_window(N),
    overlap_scale_factor |->
      stft_processor_pre_and_post_window(fft_window(N), fft_window(N), N),
    in_fifo |-> stft_processor_reset(N, N, junk),
    out_fifo |-> stft_processor_reset(N, N, junk),
    output_accum |-> stft_processor_reset(2 * N, 2 * N, junk),
    output_fft_buffer |-> stft_processor_reset(N, N, junk),
    \* history: input_fft_buffer as the memcpy at the start of the latest
    \* cycle filled it, before the analysis window
    copied_frame |-> stft_processor_reset(N, N, junk),
    cycles |-> 0 ]

\* FFTW_R2HC of a 4-point frame: r0, r1, r2, i1
forward_fft(x) ==
  Array([k \in 0..3 |->
     CASE k = 0 -> Add(Add(x[0], x[1]), Add(x[2], x[3]))
       [] k = 1 -> Sub(x[0], x[2])
       [] k = 2 -> Add(Sub(x[0], x[1]), Sub(x[2], x[3]))
       [] k = 3 -> Sub(x[3], x[1])])

\* FFTW_HC2R (unnormalised) of a 4-point halfcomplex spectrum
backward_fft(X) ==
  LET two == Num(2)
  IN Array([n \in 0..3 |->
     CASE n = 0 -> Add(Add(X[0], Mul(two, X[1])), X[2])
       [] n = 1 -> Sub(Sub(X[0], Mul(two, X[3])), X[2])
       [] n = 2 -> Add(Sub(X[0], Mul(two, X[1])), X[2])
       [] n = 3 -> Sub(Add(X[0], Mul(two, X[3])), X[2])])

stft_processor_analysis(s) ==
  forward_fft(Array([k \in 0..(s.fft_size - 1) |-> Mul(s.in_fifo[k], s.input_window[k])]))

\* the end of the synthesis: the first hop of the accumulator goes to
\* out_fifo, the accumulator and in_fifo move down by one hop
overlap_add_shift(s, X, acc) ==
  [s EXCEPT
     !.output_fft_buffer = X,
     !.out_fifo = Array([k \in 0..(s.fft_size - 1) |->
                    IF k < s.hop THEN acc[k] ELSE s.out_fifo[k]]),
     \* memmove(output_accum, output_accum + hop, fft_size * sizeof(float))
     !.output_accum = Array([k \in 0..(2 * s.fft_size - 1) |->
                        IF k < s.fft_size THEN acc[k + s.hop] ELSE acc[k]]),
     !.in_fifo = Array([k \in 0..(s.fft_size - 1) |->
                    IF k < s.input_latency THEN s.in_fifo[k + s.hop] ELSE s.in_fifo[k]]),
     !.cycles = s.cycles + 1]

\* the windowed, scaled frame t is added to the accumulator
overlap_add(s, X, t) ==
  overlap_add_shift(s, X,
    Array([k \in 0..(2 * s.fft_size - 1) |->
       IF k < s.fft_size
         THEN Add(s.output_accum[k],
                  Div(Mul(s.output_window[k], Div(t[k], Num(s.fft_size))),
                      Mul(s.overlap_scale_factor, Num(s.overlap_factor))))
         ELSE s.output_accum[k]]))

\* the synthesis half of a cycle, from the halfcomplex buffer X
stft_processor_synthesis(s, X) == overlap_add(s, X, backward_fft(X))

\* the frame callback of the framer: the denoiser's frame processor, or (dry)
\* a callback that hands the spectrum back as it received it
fft_denoiser_run(e, p, o, buf, dry) ==
  IF dry THEN [e |-> e, buf |-> buf, frame |-> [params |-> p, input |-> buf, output |-> buf]]
  ELSE spectral_processor_run(e, p, o, buf)

\* the cycle of a full frame, given what the callback returned
stft_cycle(st, s2, y, r) ==
  [ stft |-> [stft_processor_synthesis(s2, r.buf) EXCEPT
                \* memcpy(input_fft_buffer, in_fifo, sizeof(float) * fft_size)
                !.copied_frame = s2.in_fifo],
    e |-> r.e,
    out |-> Append(st.out, y),
    frames |-> Append(st.frames, r.frame) ]

stft_processor_get_latency(self) == self.input_latency

\* a sample loop that wraps one sample late: the variant against which the
\* range of read_position is sensitive
stft_step_late_wrap(st, s1, y, p, o, dry) ==
  IF s1.read_position > s1.fft_size
    THEN stft_cycle(st, [s1 EXCEPT !.read_position = s1.input_latency], y,
                    fft_denoiser_run(st.e, p, o,
                      stft_processor_analysis([s1 EXCEPT !.read_position = s1.input_latency]),
                      dry))
    ELSE [st EXCEPT !.stft = s1, !.out = Append(st.out, y)]


\* a sample loop that wraps one sample early: the variant against which the
\* count of transform cycles is sensitive
stft_step_early_wrap(st, s1, y, p, o, dry) ==
  IF s1.read_position >= s1.fft_size - 1
    THEN stft_cycle(st, [s1 EXCEPT !.read_position = s1.input_latency], y,
                    fft_denoiser_run(st.e, p, o,
                      stft_processor_analysis([s1 EXCEPT !.read_position = s1.input_latency]),
                      dry))
    ELSE [st EXCEPT !.stft = s1, !.out = Append(st.out, y)]


\* the sample is stored at read_position, the output read behind it
stft_step(st, s1, y, p, o, dry) ==
  IF s1.read_position >= s1.fft_size
    THEN stft_cycle(st, [s1 EXCEPT !.read_position = s1.input_latency], y,
                    fft_denoiser_run(st.e, p, o,
                      stft_processor_analysis([s1 EXCEPT !.read_position = s1.input_latency]),
                      dry))
    ELSE [st EXCEPT !.stft = s1, !.out = Append(st.out, y)]

\* one iteration of the sample loop.  st: [stft, e, out, frames]
stft_sample(st, x, p, o, dry) ==
  stft_step(st,
            [st.stft EXCEPT !.in_fifo[st.stft.read_position] = x,
                            !.read_position = st.stft.read_position + 1],
            st.stft.out_fifo[st.stft.read_position - st.stft.input_latency],
            p, o, dry)

RECURSIVE run_loop(_, _, _, _, _)
run_loop(st, input, p, o, dry) ==
  IF input = <<>> THEN st
  ELSE run_loop(stft_sample(st, Head(input), p, o, dry), Tail(input), p, o, dry)

-----------------------------------------------------------------------------
(* Inputs of the exploration                                               *)

\* parameter blocks the host may hand over
AllParamBlocks ==
  [ enable : BOOLEAN, learn_noise : BOOLEAN, residual_listen : BOOLEAN,
    reduction_amount : {Zero, One}, whitening_factor : {Zero, Rat(1, 2)},
    noise_rescale : {One}, release_time : {One},
    transient_threshold : {Num(2)}, masking_ceiling_limit : {One} ]

\* the mixing parameters vary where they are read: in the enabled apply path,
\* and reduction_amount only when the residual is not listened to
ParamBlocks ==
  { p \in AllParamBlocks :
      /\ (p.learn_noise \/ ~p.enable) =>
            /\ ~p.residual_listen
            /\ p.reduction_amount = Zero
            /\ p.whitening_factor = Zero
      /\ p.residual_listen => p.reduction_amount = Zero }

\* the block in force before the host writes one
DefaultParameters ==
  [ enable |-> FALSE, learn_noise |-> FALSE, residual_listen |-> FALSE,
    reduction_amount |-> Zero, whitening_factor |-> Zero,
    noise_rescale |-> One, release_time |-> One,
    transient_threshold |-> Num(2), masking_ceiling_limit |-> One ]

\* the three modes of the engine: learn, denoise, bypass
EngineParamBlocks ==
  { [DefaultParameters EXCEPT !.learn_noise = TRUE],
    [DefaultParameters EXCEPT !.enable = TRUE],
    DefaultParameters }

\* parameter blocks that exercise the gain estimator, valid and invalid
GainParamBlocks ==
  { [DefaultParameters EXCEPT !.enable = TRUE, !.noise_rescale = r, !.release_time = t] :
      r \in {Neg(One), Zero, One, Num(2)}, t \in {Neg(One), Zero, One} }

\* answers of the masking model and of the transient detector
Oracles == [alpha : {One, Num(2)}, transient : BOOLEAN]
EngineOracles == {o \in Oracles : o.alpha = One}
FrameOracles == {o \in Oracles : o.transient = (o.alpha # One)}

\* halfcomplex spectra handed to the frame callback: r0, r1, r2 free, with
\* and without an imaginary part i1
Spectra == {X \in [0..3 -> {Zero, One}] : X[3] = One => (X[0] = X[1] /\ X[1] = X[2])}
GainSpectra == {X \in Spectra : X[0] = X[1] /\ X[1] = X[2]}

Blocks == UNION {[1..n -> Samples] : n \in 1..MaxBlock}


-----------------------------------------------------------------------------
(* Masking estimator: the thresholds and their floor                       *)
(* (src/src/masking_estimator.c and the copy of the denoiser library).     *)
(* Thresholds are floats in dB; the model keeps the values that matter to  *)
(* the order: small integers, the two infinities and NaN.                  *)

PosInf == 1000
NegInf == -1000
NaN == 2000

Finite(x) == x # NaN /\ x # PosInf /\ x # NegInf

\* float addition
FAdd(x, y) ==
  IF x = NaN \/ y = NaN THEN NaN
  ELSE IF Finite(x) /\ Finite(y) THEN x + y
  ELSE IF Finite(y) THEN x
  ELSE IF Finite(x) THEN y
  ELSE IF x = y THEN x ELSE NaN

\* x >= y on floats: false when either is NaN
FGe(x, y) == x # NaN /\ y # NaN /\ x >= y

\* fmaxf: the larger argument, and the other one when one is NaN
fmaxf(x, y) ==
  IF x = NaN THEN y
  ELSE IF y = NaN THEN x
  ELSE IF x >= y THEN x ELSE y

\* masking_thresholds[k] += spl_reference_values[k], k in 0..half_fft_size
convert_to_dbspl(self, masking_thresholds) ==
  Array([k \in 0..self.half_fft_size |->
     FAdd(masking_thresholds[k], self.spl_reference_values[k])])

\* the floor of the library copy starts at bin 1, the plugin's at bin 0
apply_absolute_floor(self, masking_thresholds) ==
  Array([k \in 0..self.half_fft_size |->
     IF k >= self.first_bin
       THEN fmaxf(masking_thresholds[k], self.absolute_thresholds[k])
       ELSE masking_thresholds[k]])

\* thresholds left without the floor: the variant against which the floor
\* property is sensitive
compute_masking_thresholds_unfloored(self, band_thresholds) ==
  convert_to_dbspl(self, band_thresholds)

\* band_thresholds: what the Bark-band stage (band energies, spreading,
\* tonality offset, powf and log10f) left in masking_thresholds, any float
\* per bin; then the conversion to dB SPL and the floor
compute_masking_thresholds(self, band_thresholds) ==
  apply_absolute_floor(self, convert_to_dbspl(self, band_thresholds))

\* the estimator after masking_estimation_initialize: the absolute thresholds
\* of bins 1..half_fft_size come from the threshold-in-quiet formula, bin 0
\* stays as calloc left it
masking_estimation_initialize(half_fft_size, absolute, reference, first_bin) ==
  [ half_fft_size |-> half_fft_size,
    first_bin |-> first_bin,
    absolute_thresholds |-> Array([k \in 0..half_fft_size |-> IF k = 0 THEN 0 ELSE absolute[k]]),
    spl_reference_values |-> reference,
    masking_thresholds |-> Array([k \in 0..half_fft_size |-> 0]),
    unfloored |-> Array([k \in 0..half_fft_size |-> 0]),
    calls |-> 0 ]

\* Bark bands.  bark_z is kept by its floor, the only way the code uses it;
\* power values are small naturals.  The arrays of half_fft_size + 1 floats
\* are followed in memory by whatever lies there: beyond_z and beyond_p are
\* the floors and powers a read past the end finds, and past those a value
\* that matches no band.
N_BARK_BANDS == 25

bark_z_at(self, k) ==
  IF k <= self.half_fft_size THEN self.bark_z[k]
  ELSE IF k - self.half_fft_size <= Len(self.beyond_z)
    THEN self.beyond_z[k - self.half_fft_size]
    ELSE 0

spectrum_at(self, spectrum, k) ==
  IF k <= self.half_fft_size THEN spectrum[k]
  ELSE IF k - self.half_fft_size <= Len(self.beyond_p)
    THEN self.beyond_p[k - self.half_fft_size]
    ELSE 0

\* the while loop of one band: bins are taken while floor(bark_z) = j + 1.
\* b: [counter, sum, z_reads, p_reads]
RECURSIVE bark_band(_, _, _, _, _)
bark_band(self, spectrum, j, last_position, b) ==
  IF bark_z_at(self, last_position + b.counter) = j + 1
    THEN bark_band(self, spectrum, j, last_position,
           [ counter |-> b.counter + 1,
             sum |-> b.sum + spectrum_at(self, spectrum, last_position + b.counter),
             z_reads |-> b.z_reads \cup {last_position + b.counter},
             p_reads |-> b.p_reads \cup {last_position + b.counter} ])
    ELSE [b EXCEPT !.z_reads = b.z_reads \cup {last_position + b.counter}]

\* the state after band j, given what its while loop returned
bark_band_done(st, b) ==
  [ last_position |-> st.last_position + b.counter,
    n_bins_per_band |-> Append(st.n_bins_per_band, b.counter),
    intermediate_band_bins |-> Append(st.intermediate_band_bins, st.last_position + b.counter),
    bark_spectrum |-> Append(st.bark_spectrum, b.sum),
    z_reads |-> b.z_reads,
    p_reads |-> b.p_reads ]

\* bands j..N_BARK_BANDS-1; band j of the code is entry j + 1 of the sequences
RECURSIVE compute_bark_bands(_, _, _, _)
compute_bark_bands(self, spectrum, j, st) ==
  IF j >= N_BARK_BANDS THEN st
  ELSE compute_bark_bands(self, spectrum, j + 1,
         bark_band_done(st,
           bark_band(self, spectrum, j, st.last_position,
             [ counter |-> IF j = 0 THEN 1 ELSE 0, sum |-> 0,
               z_reads |-> st.z_reads, p_reads |-> st.p_reads ])))

compute_bark_spectrum(self, spectrum) ==
  compute_bark_bands(self, spectrum, 0,
    [ last_position |-> 0, n_bins_per_band |-> <<>>, intermediate_band_bins |-> <<>>,
      bark_spectrum |-> <<>>, z_reads |-> {}, p_reads |-> {} ])

\* the bins compute_tonality_factor reads for a band: start_pos..end_pos - 1
tonality_bins(bands, band) ==
  IF band = 0
    THEN 0..(bands.n_bins_per_band[1] - 1)
    ELSE bands.intermediate_band_bins[band]
           ..(bands.intermediate_band_bins[band] + bands.n_bins_per_band[band + 1] - 1)

\* the bins the threshold of a band is written to: start_pos..end_pos - 1
threshold_bins(bands, band) ==
  (IF band = 0 THEN 0 ELSE bands.intermediate_band_bins[band])
    ..(bands.intermediate_band_bins[band + 1] - 1)

\* the spreading function is a positive power of ten for every pair of
\* bands (its underflow in float is left out): a spreaded band energy is
\* positive when some band energy is
spreaded_positive(bands, i) == \E j \in 1..N_BARK_BANDS : bands.bark_spectrum[j] > 0


\* no masking estimator is under study
NoMasking == masking_estimation_initialize(0, <<>>, <<0>>, 0)


-----------------------------------------------------------------------------
(* Plugin state: saving and restoring the noise profile through the host   *)

\* sizeof(int), and sizeof(NoiseProfile) in 4-byte words: child_size,
\* child_type, noise_profile_size, padding, and the two halves of values
SizeofInt == 4
NoiseProfileWords == 6
\* sizeof(LV2_Atom) in words: what LV2_ATOM_BODY skips
AtomHeaderWords == 2

\* the host's URID map
urid_map(uri) ==
  CASE uri = "atom:Vector" -> 1
    [] uri = "atom:Int" -> 2
    [] uri = "atom:Float" -> 3
    [] uri = "fftsize" -> 4
    [] uri = "blockcount" -> 5
    [] uri = "savednoiseprofile" -> 6

\* addresses the allocator may return, as their low 4 bytes
Addresses == {4096, 8192}

\* a word of uninitialised memory
HeapWord(junk) == IF junk = Zero THEN 0 ELSE 1

\* struct NoiseProfile as the words it occupies; values is calloc'ed at addr
noise_profile_initialize(child_type, noise_profile_size, addr, junk) ==
  [ words |-> Array([i \in 0..(NoiseProfileWords - 1) |->
                CASE i = 0 -> SizeofFloat
                  [] i = 1 -> child_type
                  [] i = 2 -> noise_profile_size
                  [] i = 3 -> HeapWord(junk)
                  [] i = 4 -> addr
                  [] i = 5 -> 0]),
    values |-> Array([k \in 0..(noise_profile_size - 1) |-> Zero]) ]

\* the host of the model supports the URID map feature
plugin_state_configure(noise_profile_size, addr, junk) ==
  [ atom_Vector |-> urid_map("atom:Vector"),
    atom_Int |-> urid_map("atom:Int"),
    atom_Float |-> urid_map("atom:Float"),
    property_fft_size |-> urid_map("fftsize"),
    property_block_count |-> urid_map("blockcount"),
    property_saved_noise_profile |-> urid_map("savednoiseprofile"),
    noise_profile |->
      noise_profile_initialize(urid_map("atom:Float"), noise_profile_size, addr, junk) ]

\* the feature lists a host may pass: each feature is a URI and a data pointer
LV2_URID__map == "http://lv2plug.in/ns/ext/urid#map"
MaxFeatures == 2
Features ==
  { [URI |-> LV2_URID__map, data |-> "map"],
    [URI |-> "http://lv2plug.in/ns/ext/options#options", data |-> "options"],
    [URI |-> "http://lv2plug.in/ns/ext/buf-size#boundedBlockLength", data |-> "null"] }
FeatureLists == UNION {[1..n -> Features] : n \in 0..MaxFeatures}

\* what the map field of a PluginState may hold before it is configured: the
\* function never initialises it, so it is whatever the memory held
MapPointers == {"null", "stale"}

\* the struct before it is configured
PluginStateMemory(map) ==
  [ map |-> map, atom_Vector |-> 0, atom_Int |-> 0, atom_Float |-> 0,
    property_fft_size |-> 0, property_block_count |-> 0,
    property_saved_noise_profile |-> 0,
    noise_profile |-> [words |-> <<>>, values |-> <<>>] ]

\* the loop over the features: the data of the last URID-map feature, else
\* the value the field had
RECURSIVE retrieve_urid_map(_, _)
retrieve_urid_map(features, map) ==
  IF features = <<>> THEN map
  ELSE retrieve_urid_map(Tail(features),
         IF Head(features).URI = LV2_URID__map THEN Head(features).data ELSE map)

\* the whole function on a struct and a feature list.  Calling through a
\* stale map pointer is undefined: the call crashes or returns some numbers
\* (ub chooses); mapped counts the identifiers asked of the host
plugin_state_configure_features(self, features, noise_profile_size, addr, junk, ub) ==
  IF retrieve_urid_map(features, self.map) = "null"
    THEN [ returned |-> "false", mapped |-> 0, allocated |-> FALSE,
           self |-> [self EXCEPT !.map = "null"] ]
    ELSE IF retrieve_urid_map(features, self.map) = "stale"
      THEN IF ub = "crash"
             THEN [ returned |-> "crash", mapped |-> 1, allocated |-> FALSE, self |-> self ]
             ELSE [ returned |-> "true", mapped |-> 6, allocated |-> TRUE,
                    self |-> [ map |-> "stale",
                               atom_Vector |-> HeapWord(junk), atom_Int |-> HeapWord(junk),
                               atom_Float |-> HeapWord(junk),
                               property_fft_size |-> HeapWord(junk),
                               property_block_count |-> HeapWord(junk),
                               property_saved_noise_profile |-> HeapWord(junk),
                               noise_profile |->
                                 noise_profile_initialize(HeapWord(junk), noise_profile_size,
                                                          addr, junk) ] ]
      ELSE [ returned |-> "true", mapped |-> 6, allocated |-> TRUE,
             self |-> [map |-> "map"] @@ plugin_state_configure(noise_profile_size, addr, junk) ]


\* the host's store: one entry per key, absent before the first save
Absent == [present |-> FALSE]
Entry(body, size, type) == [present |-> TRUE, body |-> body, size |-> size, type |-> type]
EmptyStore == [k \in 4..6 |-> Absent]

\* store fft_size; store the 4 bytes at &noise_window_count, which is the
\* address of the pointer argument, so what is stored is the low half of the
\* counter's address (count_addr); copy sizeof(int) bytes of the profile into
\* values; store the NoiseProfile struct itself
plugin_state_savestate(self, store, fft_size, count_addr, profile) ==
  LET np == [self.noise_profile EXCEPT
               !.values = memcpy_floats(self.noise_profile.values, profile, SizeofInt)]
  IN [ self |-> [self EXCEPT !.noise_profile = np],
       store |-> [store EXCEPT
          ![self.property_fft_size] = Entry(fft_size, SizeofInt, self.atom_Int),
          ![self.property_block_count] = Entry(count_addr, SizeofFloat, self.atom_Float),
          ![self.property_saved_noise_profile] =
             Entry(np.words, NoiseProfileWords * SizeofFloat, self.atom_Vector)] ]

\* returns [returned, self, noise_profile, noise_window_count]: the last two
\* are the caller's profile array and the callee's copy of the counter
plugin_state_restorestate(self, store, profile, noise_window_count, fft_size, half_fft_size, junk) ==
  LET fftsize == store[self.property_fft_size]
      saved == store[self.property_saved_noise_profile]
      block_count == store[self.property_block_count]
      rejected == [returned |-> FALSE, self |-> self, noise_profile |-> profile,
                   noise_window_count |-> noise_window_count]
  IN IF ~fftsize.present \/ fftsize.type # self.atom_Int \/ fftsize.body # half_fft_size
       THEN rejected
     ELSE IF ~saved.present \/ saved.size # NoiseProfileWords * SizeofFloat
             \/ saved.type # self.atom_Vector
       THEN rejected
     ELSE
       \* memcpy(self->noise_profile, LV2_ATOM_BODY(saved), (half_fft_size + 1)
       \* floats): the destination is the struct, not the caller's array; words
       \* read past the stored struct are whatever lies behind it, and for
       \* half_fft_size + 1 > NoiseProfileWords the copy runs past the end of
       \* the destination struct (the frame sizes here keep it inside)
       LET src(i) == IF i + AtomHeaderWords < NoiseProfileWords
                       THEN saved.body[i + AtomHeaderWords]
                       ELSE HeapWord(junk)
           words == Array([i \in 0..(NoiseProfileWords - 1) |->
                       IF i < half_fft_size + 1 THEN src(i)
                       ELSE self.noise_profile.words[i]])
       IN [ returned |-> TRUE,
            self |-> [self EXCEPT !.noise_profile.words = words],
            noise_profile |-> profile,
            noise_window_count |-> IF block_count.type = self.atom_Float
                                     THEN block_count.body ELSE noise_window_count ]

-----------------------------------------------------------------------------
(* Actions                                                                 *)

\* no call of the sample loop is in progress
NoCall == [active |-> FALSE, parameters |-> DefaultParameters, frames |-> 0]

Engine == [sp |-> sp, noise_profile |-> noise_profile, frames_learned |-> frames_learned]

UnchangedState == UNCHANGED <<plugin_state, host, heap, run_call, masking>>

\* the state after a call of the sample loop that returned r
run_returns(input, r) ==
  /\ stft' = r.stft
  /\ sp' = r.e.sp
  /\ noise_profile' = r.e.noise_profile
  /\ frames_learned' = r.e.frames_learned
  /\ input_log' = input_log \o input
  /\ output_log' = output_log \o r.out
  /\ last_frames' = r.frames
  /\ UNCHANGED denoise_parameters
  /\ UnchangedState

\* the host hands a block of samples to the engine
stft_processor_run(input, p, o) ==
  /\ Len(input_log) + Len(input) <= MaxSamples
  /\ run_returns(input,
       run_loop([stft |-> stft, e |-> Engine, out |-> <<>>, frames |-> <<>>],
                input, p, o, FALSE))

\* the same, around a frame callback that leaves the spectrum unchanged
stft_processor_run_dry(input) ==
  /\ Len(input_log) + Len(input) <= MaxDrySamples
  /\ run_returns(input,
       run_loop([stft |-> stft, e |-> Engine, out |-> <<>>, frames |-> <<>>],
                input, DefaultParameters, CHOOSE o \in Oracles : TRUE, TRUE))

\* the host points the processor at a parameter block
load_processor_parameters(new_parameters) ==
  /\ stft.cycles < MaxFrames
  /\ denoise_parameters' = new_parameters
  /\ UNCHANGED <<stft, sp, noise_profile, frames_learned, input_log, output_log, last_frames>>
  /\ UnchangedState

\* the state after a frame callback that returned r
frame_returns(r) ==
  /\ stft' = [stft EXCEPT !.output_fft_buffer = r.buf, !.cycles = stft.cycles + 1]
  /\ sp' = r.e.sp
  /\ noise_profile' = r.e.noise_profile
  /\ frames_learned' = r.e.frames_learned
  /\ last_frames' = <<r.frame>>
  /\ UNCHANGED <<denoise_parameters, input_log, output_log>>
  /\ UnchangedState

\* the framer hands one halfcomplex buffer to the frame callback
Frame(buf, o) ==
  /\ stft.cycles < MaxFrames
  /\ frame_returns(spectral_processor_run(Engine, denoise_parameters, o, buf))

UnchangedEngine ==
  UNCHANGED <<stft, sp, denoise_parameters, heap, input_log, output_log, last_frames,
              run_call, masking>>

\* the host saves the state of the plugin
SaveState(count_addr) ==
  /\ host.calls < MaxStateCalls
  /\ LET r == plugin_state_savestate(plugin_state, host.store, sp.fft_size,
                                     count_addr, noise_profile)
     IN /\ plugin_state' = r.self
        /\ host' = [ store |-> r.store,
                     calls |-> host.calls + 1,
                     saved_from |-> [fft_size |-> sp.fft_size,
                                     noise_profile |-> noise_profile,
                                     frames_learned |-> frames_learned],
                     last |-> [op |-> "save"] ]
  /\ UNCHANGED <<noise_profile, frames_learned>>
  /\ UnchangedEngine

\* the host restores the state of the plugin
RestoreState ==
  /\ host.calls < MaxStateCalls
  /\ LET fftsize == host.store[plugin_state.property_fft_size]
         r == plugin_state_restorestate(plugin_state, host.store, noise_profile,
                                        frames_learned, sp.fft_size,
                                        sp.half_fft_size, heap)
     IN /\ plugin_state' = r.self
        /\ noise_profile' = r.noise_profile
        \* noise_window_count is passed by value: the engine's counter stays
        /\ frames_learned' = frames_learned
        /\ host' = [host EXCEPT
              !.calls = host.calls + 1,
              !.last = [ op |-> "restore", returned |-> r.returned,
                         stored |-> fftsize.present,
                         persisted_fft_size |-> IF fftsize.present THEN fftsize.body ELSE 0,
                         noise_before |-> noise_profile,
                         count_before |-> frames_learned ]]
  /\ UnchangedEngine

\* the host destroys the plugin and creates it again with frame size N; the
\* host's store outlives the plugin
Instantiate(N, addr) ==
  /\ host.calls < MaxStateCalls
  /\ stft' = stft_processor_initialize(N, 2, heap)
  /\ sp' = spectral_processor_initialize(N)
  /\ noise_profile' = ZeroBins(N \div 2)
  /\ frames_learned' = 0
  /\ plugin_state' = plugin_state_configure(N \div 2 + 1, addr, heap)
  /\ host' = [host EXCEPT !.calls = host.calls + 1, !.last = [op |-> "instantiate"]]
  /\ UNCHANGED <<denoise_parameters, heap, input_log, output_log, last_frames,
                  run_call, masking>>


\* the host creates a plugin state and configures it with its feature list:
\* the struct comes with whatever its memory held (map0), the profile is
\* allocated at addr
Configure(features, noise_profile_size, map0, addr, ub) ==
  /\ host.calls < MaxStateCalls
  /\ LET r == plugin_state_configure_features(PluginStateMemory(map0), features,
                                              noise_profile_size, addr, heap, ub)
     IN /\ plugin_state' = r.self
        /\ host' = [host EXCEPT
              !.calls = host.calls + 1,
              !.last = [ op |-> "configure", returned |-> r.returned,
                         features |-> features,
                         noise_profile_size |-> noise_profile_size,
                         mapped |-> r.mapped, allocated |-> r.allocated ]]
  /\ UNCHANGED <<noise_profile, frames_learned>>
  /\ UnchangedEngine

\* the processor asks for the masking thresholds of a frame
ComputeMaskingThresholds(band_thresholds) ==
  /\ masking.calls < MaxMaskingCalls
  /\ masking' = [masking EXCEPT
        !.masking_thresholds = compute_masking_thresholds(masking, band_thresholds),
        !.unfloored = convert_to_dbspl(masking, band_thresholds),
        !.calls = masking.calls + 1]
  /\ UNCHANGED <<stft, sp, noise_profile, frames_learned, denoise_parameters,
                 plugin_state, host, heap, input_log, output_log, last_frames, run_call>>

\* the gain estimator asks for the band energies of a power spectrum
ComputeBarkSpectrum(spectrum) ==
  /\ masking.calls < MaxMaskingCalls
  /\ masking' = [masking EXCEPT
        !.spectrum = spectrum,
        !.bands = compute_bark_spectrum(masking, spectrum),
        !.calls = masking.calls + 1]
  /\ UNCHANGED <<stft, sp, noise_profile, frames_learned, denoise_parameters,
                 plugin_state, host, heap, input_log, output_log, last_frames, run_call>>

-----------------------------------------------------------------------------
(* Specifications                                                          *)

InitEngine(N, O, junk, addr) ==
  /\ stft = stft_processor_initialize(N, O, junk)
  /\ sp = spectral_processor_initialize(N)
  /\ noise_profile = ZeroBins(N \div 2)
  /\ frames_learned = 0
  /\ denoise_parameters = DefaultParameters
  /\ plugin_state = plugin_state_configure(N \div 2 + 1, addr, junk)
  /\ host = [store |-> EmptyStore, calls |-> 0, saved_from |-> [fft_size |-> 0],
             last |-> [op |-> "none"]]
  /\ heap = junk
  /\ input_log = <<>>
  /\ output_log = <<>>
  /\ last_frames = <<>>
  /\ run_call = NoCall
  /\ masking = NoMasking

FirstAddress == CHOOSE a \in Addresses : \A b \in Addresses : a <= b

\* the engine: blocks of samples through the framer and the processor
Init == \E N \in FftSizes, O \in OverlapFactors, junk \in Junk :
          InitEngine(N, O, junk, FirstAddress)

Next == \E input \in Blocks, p \in EngineParamBlocks, o \in EngineOracles :
          stft_processor_run(input, p, o)

Spec == Init /\ [][Next]_vars

\* the framer alone, around a callback that leaves the spectrum unchanged
NextDry == \E input \in Blocks : stft_processor_run_dry(input)

SpecDry == Init /\ [][NextDry]_vars

\* the frame callback alone, on arbitrary spectra and parameter blocks
InitFrame == \E N \in FftSizes : InitEngine(N, 4, Zero, FirstAddress)

NextFrame ==
  \/ \E p \in ParamBlocks : load_processor_parameters(p)
  \/ \E buf \in Spectra, o \in FrameOracles : Frame(buf, o)

SpecFrame == InitFrame /\ [][NextFrame]_vars

\* the apply path on a learned profile, under valid and invalid parameters
NoiseProfiles == {get_fft_power_spectrum(X, 4, 2) : X \in GainSpectra}

InitGain ==
  \E N \in FftSizes, noise \in NoiseProfiles, p \in GainParamBlocks :
    /\ InitEngine(N, 4, Zero, FirstAddress)!1
    /\ InitEngine(N, 4, Zero, FirstAddress)!2
    /\ noise_profile = noise
    /\ frames_learned = 1
    /\ denoise_parameters = p
    /\ plugin_state = plugin_state_configure(N \div 2 + 1, FirstAddress, Zero)
    /\ host = [store |-> EmptyStore, calls |-> 0, saved_from |-> [fft_size |-> 0],
               last |-> [op |-> "none"]]
    /\ heap = Zero
    /\ input_log = <<>>
    /\ output_log = <<>>
    /\ last_frames = <<>>
    /\ run_call = NoCall
    /\ masking = NoMasking

NextGain == \E buf \in GainSpectra, o \in Oracles : Frame(buf, o)

SpecGain == InitGain /\ [][NextGain]_vars

\* saving and restoring: engines of two frame sizes, fresh or with a profile
\* learned from one or two frames
InitState ==
  \E N \in StateFftSizes, junk \in Junk, addr \in Addresses, count \in 0..2 :
    /\ stft = stft_processor_initialize(N, 2, junk)
    /\ sp = spectral_processor_initialize(N)
    /\ noise_profile = [k \in 0..(N \div 2) |-> IF count = 0 THEN Zero ELSE Num(count)]
    /\ frames_learned = count
    /\ denoise_parameters = DefaultParameters
    /\ plugin_state = plugin_state_configure(N \div 2 + 1, addr, junk)
    /\ host = [store |-> EmptyStore, calls |-> 0, saved_from |-> [fft_size |-> 0],
               last |-> [op |-> "none"]]
    /\ heap = junk
    /\ input_log = <<>>
    /\ output_log = <<>>
    /\ last_frames = <<>>
    /\ run_call = NoCall
    /\ masking = NoMasking

NextState ==
  \/ \E count_addr \in Addresses : SaveState(count_addr)
  \/ RestoreState
  \/ \E N \in StateFftSizes, addr \in Addresses : Instantiate(N, addr)

SpecState == InitState /\ [][NextState]_vars

\* learning alone: engines that have learned 0..MaxLearned frames, in learn mode
LearnParamBlocks == {p \in ParamBlocks : p.learn_noise}

InitLearn ==
  \E N \in FftSizes, noise \in NoiseProfiles, count \in 0..MaxLearned,
     p \in LearnParamBlocks :
    /\ InitEngine(N, 4, Zero, FirstAddress)!1
    /\ InitEngine(N, 4, Zero, FirstAddress)!2
    /\ noise_profile = IF count = 0 THEN ZeroBins(N \div 2) ELSE noise
    /\ frames_learned = count
    /\ denoise_parameters = p
    /\ plugin_state = plugin_state_configure(N \div 2 + 1, FirstAddress, Zero)
    /\ host = [store |-> EmptyStore, calls |-> 0, saved_from |-> [fft_size |-> 0],
               last |-> [op |-> "none"]]
    /\ heap = Zero
    /\ input_log = <<>>
    /\ output_log = <<>>
    /\ last_frames = <<>>
    /\ run_call = NoCall
    /\ masking = NoMasking

NextLearn == \E buf \in Spectra, o \in FrameOracles : Frame(buf, o)

SpecLearn == InitLearn /\ [][NextLearn]_vars

\* a call of the sample loop taken in steps: the call starts, each frame it
\* completes runs the frame callback, the host may write the parameter block
\* in between, the call returns
BeginRun ==
  /\ ~run_call.active
  /\ stft.cycles < MaxFrames
  /\ run_call' = [active |-> TRUE, parameters |-> denoise_parameters, frames |-> 0]
  /\ last_frames' = <<>>
  /\ UNCHANGED <<stft, sp, noise_profile, frames_learned, denoise_parameters,
                 plugin_state, host, heap, input_log, output_log, masking>>

BlockFrameReturns(r) ==
  /\ stft' = [stft EXCEPT !.output_fft_buffer = r.buf, !.cycles = stft.cycles + 1]
  /\ sp' = r.e.sp
  /\ noise_profile' = r.e.noise_profile
  /\ frames_learned' = r.e.frames_learned
  /\ last_frames' = Append(last_frames, r.frame)
  /\ run_call' = [run_call EXCEPT !.frames = run_call.frames + 1]
  /\ UNCHANGED <<denoise_parameters, plugin_state, host, heap, input_log, output_log,
                 masking>>

BlockFrame(buf, o) ==
  /\ run_call.active
  /\ stft.cycles < MaxFrames
  /\ BlockFrameReturns(spectral_processor_run(Engine, denoise_parameters, o, buf))

EndRun ==
  /\ run_call.active
  /\ run_call' = NoCall
  /\ UNCHANGED <<stft, sp, noise_profile, frames_learned, denoise_parameters,
                 plugin_state, host, heap, input_log, output_log, last_frames, masking>>

NextBlock ==
  \/ BeginRun
  \/ \E buf \in Spectra, o \in FrameOracles : BlockFrame(buf, o)
  \/ \E p \in EngineParamBlocks : load_processor_parameters(p)
  \/ EndRun

SpecBlock == InitFrame /\ [][NextBlock]_vars


\* parameter blocks that exercise the final mix, valid and invalid
MixParamBlocks ==
  { [DefaultParameters EXCEPT !.enable = TRUE, !.residual_listen = l,
                              !.reduction_amount = r, !.whitening_factor = w] :
      l \in BOOLEAN, r \in {Neg(One), Zero, Rat(1, 2), One, Num(2)},
      w \in {Neg(One), Zero, Rat(1, 2), Num(2)} }

\* the apply path on a learned profile, under those blocks
InitMix ==
  \E N \in FftSizes, noise \in NoiseProfiles, p \in MixParamBlocks :
    /\ InitEngine(N, 4, Zero, FirstAddress)!1
    /\ InitEngine(N, 4, Zero, FirstAddress)!2
    /\ noise_profile = noise
    /\ frames_learned = 1
    /\ denoise_parameters = p
    /\ plugin_state = plugin_state_configure(N \div 2 + 1, FirstAddress, Zero)
    /\ host = [store |-> EmptyStore, calls |-> 0, saved_from |-> [fft_size |-> 0],
               last |-> [op |-> "none"]]
    /\ heap = Zero
    /\ input_log = <<>>
    /\ output_log = <<>>
    /\ last_frames = <<>>
    /\ run_call = NoCall
    /\ masking = NoMasking

NextMix == \E buf \in Spectra, o \in FrameOracles : Frame(buf, o)

SpecMix == InitMix /\ [][NextMix]_vars


\* configuring a plugin state: any feature list, any requested profile size
ProfileSizes == {1, 2, 3}
UndefinedOutcomes == {"crash", "garbage"}

NextConfigure ==
  \E features \in FeatureLists, n \in ProfileSizes, map0 \in MapPointers,
     addr \in Addresses, ub \in UndefinedOutcomes :
    Configure(features, n, map0, addr, ub)

SpecConfigure == InitState /\ [][NextConfigure]_vars


\* the masking estimator alone: any finite or infinite absolute thresholds,
\* any reference values, any band-stage result including NaN
AbsoluteValues == {-1, 0, 1, PosInf}
ReferenceValues == {0, PosInf}
Floats == {NegInf, -1, 1, PosInf, NaN}

InitMasking ==
  \E absolute \in [1..2 -> AbsoluteValues], reference \in [0..2 -> ReferenceValues],
     first_bin \in {0, 1} :
    /\ InitEngine(4, 4, Zero, FirstAddress)!1
    /\ InitEngine(4, 4, Zero, FirstAddress)!2
    /\ InitEngine(4, 4, Zero, FirstAddress)!3
    /\ InitEngine(4, 4, Zero, FirstAddress)!4
    /\ InitEngine(4, 4, Zero, FirstAddress)!5
    /\ InitEngine(4, 4, Zero, FirstAddress)!6
    /\ InitEngine(4, 4, Zero, FirstAddress)!7
    /\ InitEngine(4, 4, Zero, FirstAddress)!8
    /\ InitEngine(4, 4, Zero, FirstAddress)!9
    /\ InitEngine(4, 4, Zero, FirstAddress)!10
    /\ InitEngine(4, 4, Zero, FirstAddress)!11
    /\ InitEngine(4, 4, Zero, FirstAddress)!12
    /\ masking = masking_estimation_initialize(2, absolute, reference, first_bin)

NextMasking == \E band_thresholds \in [0..2 -> Floats] : ComputeMaskingThresholds(band_thresholds)

SpecMasking == InitMasking /\ [][NextMasking]_vars


\* the apply path at full wet: the crossfade has settled at 1 on an enabled
\* engine with a learned profile
InitWet ==
  \E N \in FftSizes, noise \in NoiseProfiles :
    /\ stft = stft_processor_initialize(N, 4, Zero)
    /\ sp = [spectral_processor_initialize(N) EXCEPT !.wet_dry = One, !.wet_dry_target = One]
    /\ noise_profile = noise
    /\ frames_learned = 1
    /\ denoise_parameters = [DefaultParameters EXCEPT !.enable = TRUE]
    /\ plugin_state = plugin_state_configure(N \div 2 + 1, FirstAddress, Zero)
    /\ host = [store |-> EmptyStore, calls |-> 0, saved_from |-> [fft_size |-> 0],
               last |-> [op |-> "none"]]
    /\ heap = Zero
    /\ input_log = <<>>
    /\ output_log = <<>>
    /\ last_frames = <<>>
    /\ run_call = NoCall
    /\ masking = NoMasking

NextWet == \E buf \in Spectra, o \in Oracles : Frame(buf, o)

SpecWet == InitWet /\ [][NextWet]_vars


\* the Bark bands alone: an estimator of half_fft_size 3 with any
\* non-decreasing mapping of its bins to floors 0..26, any memory past the
\* arrays, and the power spectra the processor hands over (some bin
\* 1..half_fft_size above FLT_MIN)
BarkHalfSize == 3
BarkFloors == {0, 1, 2, 24, 25, 26}
BarkMappings ==
  {z \in [0..BarkHalfSize -> BarkFloors] : \A k \in 1..BarkHalfSize : z[k - 1] <= z[k]}
BarkSpectra == {P \in [0..BarkHalfSize -> {0, 1}] : \E k \in 1..BarkHalfSize : P[k] > 0}

InitBark ==
  \E z \in BarkMappings, bz \in [1..2 -> {0, 25}], bp \in {0, 1} :
    /\ InitEngine(4, 4, Zero, FirstAddress)!1
    /\ InitEngine(4, 4, Zero, FirstAddress)!2
    /\ InitEngine(4, 4, Zero, FirstAddress)!3
    /\ InitEngine(4, 4, Zero, FirstAddress)!4
    /\ InitEngine(4, 4, Zero, FirstAddress)!5
    /\ InitEngine(4, 4, Zero, FirstAddress)!6
    /\ InitEngine(4, 4, Zero, FirstAddress)!7
    /\ InitEngine(4, 4, Zero, FirstAddress)!8
    /\ InitEngine(4, 4, Zero, FirstAddress)!9
    /\ InitEngine(4, 4, Zero, FirstAddress)!10
    /\ InitEngine(4, 4, Zero, FirstAddress)!11
    /\ InitEngine(4, 4, Zero, FirstAddress)!12
    /\ masking = [ half_fft_size |-> BarkHalfSize, bark_z |-> z,
                   beyond_z |-> bz, beyond_p |-> <<bp, bp>>,
                   spectrum |-> [k \in 0..BarkHalfSize |-> 0],
                   bands |-> [ last_position |-> 0, n_bins_per_band |-> <<>>,
                               intermediate_band_bins |-> <<>>, bark_spectrum |-> <<>>,
                               z_reads |-> {}, p_reads |-> {} ],
                   calls |-> 0 ]

NextBark == \E spectrum \in BarkSpectra : ComputeBarkSpectrum(spectrum)

SpecBark == InitBark /\ [][NextBark]_vars


\* the engine and its persistence together: frames in any mode between
\* saves, restores and new instances
StateSpectra == {X \in Spectra : X[2] = Zero /\ X[3] = Zero}

NextAll ==
  \/ SaveState(FirstAddress)
  \/ RestoreState
  \/ \E N \in StateFftSizes : Instantiate(N, FirstAddress)
  \/ \E p \in EngineParamBlocks : load_processor_parameters(p)
  \/ sp.fft_size = 4 /\ \E buf \in StateSpectra, o \in EngineOracles : Frame(buf, o)

InitAll ==
  \E N \in StateFftSizes :
    /\ stft = stft_processor_initialize(N, 2, Zero)
    /\ sp = spectral_processor_initialize(N)
    /\ noise_profile = ZeroBins(N \div 2)
    /\ frames_learned = 0
    /\ denoise_parameters = DefaultParameters
    /\ plugin_state = plugin_state_configure(N \div 2 + 1, FirstAddress, Zero)
    /\ host = [store |-> EmptyStore, calls |-> 0, saved_from |-> [fft_size |-> 0],
               last |-> [op |-> "none"]]
    /\ heap = Zero
    /\ input_log = <<>>
    /\ output_log = <<>>
    /\ last_frames = <<>>
    /\ run_call = NoCall
    /\ masking = NoMasking

SpecAll == InitAll /\ [][NextAll]_vars


-----------------------------------------------------------------------------
(* Properties                                                              *)

Silent(log) == \A n \in DOMAIN log : log[n] = Zero
FramesOfCall == DOMAIN last_frames
HalfBins == 0..sp.half_fft_size

\* C1: dry pass-through delay.  Around a callback that leaves the spectrum
\* unchanged, output sample n equals input sample n - input_latency for every
\* n >= input_latency (samples counted from 0), and the outputs before that
\* are zero.  Stated for the engines whose memory was zero when allocated, so
\* that no uninitialised value is read.
DryDelay ==
  heap = Zero =>
    \A n \in DOMAIN output_log :
      output_log[n] = IF n <= stft.input_latency THEN Zero
                      ELSE input_log[n - stft.input_latency]

\* the delay the framer has on zeroed memory: fft_size samples
DelayIsFftSize ==
  heap = Zero =>
    \A n \in DOMAIN output_log :
      output_log[n] = IF n <= stft.fft_size THEN Zero ELSE input_log[n - stft.fft_size]

\* C2: learn mode is dry.  Every frame processed with learn_noise = true is
\* handed back equal to the spectrum received, whatever enable, wet_dry and
\* the frames before.
LearnIsDry ==
  \A i \in FramesOfCall :
    last_frames[i].params.learn_noise => last_frames[i].output = last_frames[i].input

\* C3: no profile means no suppression.  With enable = true, learn_noise =
\* false and no frame ever learned, every frame is handed back unchanged.
NoProfileNoSuppression ==
  \A i \in FramesOfCall :
    LET f == last_frames[i]
    IN (f.params.enable /\ ~f.params.learn_noise /\ f.count_before = 0 /\ frames_learned = 0)
         => f.output = f.input

\* C4: silence in, silence out.  From a freshly initialised engine, an
\* all-zero input of any length in any blocks gives all-zero output.
SilenceInSilenceOut == Silent(input_log) => Silent(output_log)

\* C5: a restore with a persisted fft_size different from the engine's
\* fft_size returns false and leaves the engine's noise profile and
\* frames_learned as they were.
RestoreMismatchRejected ==
  (host.last.op = "restore" /\ host.last.stored
     /\ host.last.persisted_fft_size # sp.fft_size)
    => /\ ~host.last.returned
       /\ noise_profile = host.last.noise_before
       /\ frames_learned = host.last.count_before

\* C6: profile round trip.  A restore of what an engine of the same fft_size
\* saved returns true, and afterwards the noise profile and frames_learned
\* equal those of the saved engine.
ProfileRoundTrip ==
  (host.last.op = "restore" /\ host.saved_from.fft_size = sp.fft_size)
    => /\ host.last.returned
       /\ noise_profile = host.saved_from.noise_profile
       /\ frames_learned = host.saved_from.frames_learned

InUnit(x) == Le(Zero, x) /\ Le(x, One)

\* C7: gain bounds.  In every frame of the apply path, for every bin k and
\* any power, noise profile, previous gain and parameters, the gain used to
\* build the denoised spectrum satisfies 0 <= gain[k] <= 1.
GainBounds ==
  /\ \A k \in HalfBins : InUnit(sp.gain_spectrum[k])
  /\ \A i \in FramesOfCall :
       last_frames[i].applied => \A k \in HalfBins : InUnit(last_frames[i].gain[k])

\* an apply frame whose release smoothing, with a release coefficient above
\* 1 and a previous gain of 1, would exceed 1
GainBoundsWitness ==
  \E i \in FramesOfCall :
    LET f == last_frames[i]
    IN /\ f.applied
       /\ Sign(f.params.release_time) < 0
       /\ \E k \in HalfBins : f.prev_gain[k] = One /\ f.gain[k] = One

Transparent(f, bins) ==
  /\ (~f.params.residual_listen /\ f.params.whitening_factor = Zero
        /\ f.params.reduction_amount = One)
       => \A k \in bins : f.processed[k] = f.input[k]
  /\ f.params.whitening_factor = Zero
       => \A k \in bins : Add(f.residual[k], f.denoised[k]) = f.input[k]

ProfileChangesOnlyInLearn ==
  [][(noise_profile' # noise_profile \/ frames_learned' # frames_learned)
       => /\ denoise_parameters.learn_noise
          /\ last_frames' # <<>>
          /\ \A i \in DOMAIN last_frames' : last_frames'[i].params.learn_noise]_vars

\* a frame of the apply path, residual listening, on a learned profile
ProfileChangesOnlyInLearnWitness ==
  \E i \in FramesOfCall :
    LET f == last_frames[i]
    IN /\ ~f.params.learn_noise /\ f.applied /\ f.params.residual_listen
       /\ f.count_before > 0 /\ frames_learned = f.count_before
       /\ noise_profile = f.noise_before

NonEmptyFrames == {i \in FramesOfCall : ~last_frames[i].empty}
LearnCall == last_frames # <<>> /\ \A i \in FramesOfCall : last_frames[i].params.learn_noise

\* C10: learn count.  Over a run of frames with learn_noise = true,
\* frames_learned increases by the number of frames that are not empty (some
\* bin 1..H of the power spectrum above FLT_MIN).
LearnCountNonEmpty ==
  LearnCall => frames_learned = last_frames[1].count_before + Cardinality(NonEmptyFrames)

\* C10 as stated: frames_learned increases by the number of frames
\* processed, whatever their content
LearnCountAllFrames ==
  LearnCall => frames_learned = last_frames[1].count_before + Len(last_frames)

\* a learn run with an empty frame and a frame that is not empty
LearnCountWitness ==
  /\ LearnCall
  /\ NonEmptyFrames # {}
  /\ NonEmptyFrames # FramesOfCall

PowerOf(f) == get_fft_power_spectrum(f.input, sp.fft_size, sp.half_fft_size)

\* C11: learning identical frames.  Starting from an empty profile, after n
\* >= 1 learned frames of the same power spectrum P, noise[k] = P[k] for
\* every bin k.  By induction on n: a learned frame of power P that finds the
\* profile empty, or equal to P, leaves the profile equal to P.
LearnIdenticalFrames ==
  \A i \in FramesOfCall :
    LET f == last_frames[i]
    IN (f.learned /\ (f.count_before = 0 \/ f.noise_before = PowerOf(f)))
         => /\ noise_profile = PowerOf(f)
            /\ f.noise_after = PowerOf(f)

\* a frame that enters the running mean of a profile learned from two
\* frames of the same, nonzero power
LearnIdenticalFramesWitness ==
  \E i \in FramesOfCall :
    LET f == last_frames[i]
    IN /\ f.learned /\ f.count_before >= 2
       /\ f.noise_before = PowerOf(f)
       /\ \E k \in HalfBins : PowerOf(f)[k] # Zero


\* C12: the parameters are read once per call of the run operation: every
\* frame processed by the call in progress used the values that were in the
\* host's parameter block when the call started, whatever the host wrote since.
ParametersReadOncePerRun ==
  run_call.active =>
    \A i \in DOMAIN last_frames : last_frames[i].params = run_call.parameters



Between(x, a, b) == Le(Min(a, b), x) /\ Le(x, Max(a, b))

\* C13: invalid parameter values are clamped on read: the reduction_amount and
\* the whitening_factor a frame of the apply path actually uses lie in [0, 1].
\* Stated by the effect of the values used, which is visible in the frame: mixed with a reduction amount in
\* [0, 1], processed[k] lies between denoised[k] and denoised[k] + residual[k];
\* whitened with a factor in [0, 1], residual[k] lies between the raw residual
\* input[k] - denoised[k] and the raw residual divided by its running maximum.
MixingParametersInUnit ==
  \A i \in FramesOfCall :
    LET f == last_frames[i]
    IN f.applied =>
         /\ ~f.params.residual_listen =>
              \A k \in 1..sp.half_fft_size :
                Between(f.processed[k], f.denoised[k], Add(f.denoised[k], f.residual[k]))
         /\ \A k \in 1..sp.half_fft_size :
              \/ f.residual[k] = Sub(f.input[k], f.denoised[k])
              \/ Between(f.residual[k], Sub(f.input[k], f.denoised[k]),
                         Div(Sub(f.input[k], f.denoised[k]), sp.residual_max_spectrum[k]))

\* the visible effect alone, for the parameter blocks whose values are valid
MixingEffectInUnit ==
  \A i \in FramesOfCall :
    LET f == last_frames[i]
    IN (f.applied /\ InUnit(f.params.reduction_amount) /\ InUnit(f.params.whitening_factor)) =>
         /\ ~f.params.residual_listen =>
              \A k \in 1..sp.half_fft_size :
                Between(f.processed[k], f.denoised[k], Add(f.denoised[k], f.residual[k]))
         /\ \A k \in 1..sp.half_fft_size :
              \/ f.residual[k] = Sub(f.input[k], f.denoised[k])
              \/ Between(f.residual[k], Sub(f.input[k], f.denoised[k]),
                         Div(Sub(f.input[k], f.denoised[k]), sp.residual_max_spectrum[k]))



\* C14: constant latency and range of the read position.  The latency the
\* framer reports is fft_size - fft_size / overlap_factor at all times, and
\* between samples input_latency <= read_position < fft_size, so that the
\* next sample indexes in_fifo within [0, fft_size) and out_fifo within
\* [0, hop).
LatencyAndReadPosition ==
  /\ stft_processor_get_latency(stft) = stft.fft_size - stft.fft_size \div stft.overlap_factor
  /\ stft.input_latency <= stft.read_position
  /\ stft.read_position < stft.fft_size
  /\ stft.read_position \in 0..(stft.fft_size - 1)
  /\ stft.read_position - stft.input_latency \in 0..(stft.hop - 1)

\* the read position has wrapped and advanced again
LatencyAndReadPositionWitness ==
  /\ stft.cycles >= 1
  /\ stft.read_position > stft.input_latency
  /\ Len(input_log) > stft.hop



HasUridMap(features) == \E i \in DOMAIN features : features[i].URI = LV2_URID__map

\* C15: plugin_state_configure returns false exactly when the host's feature
\* list contains no URID-map feature, and then it maps no identifier and
\* allocates no noise profile; when the feature is present it returns true
\* and the noise profile has the requested size, all values zero.
ConfigureNeedsUridMap ==
  host.last.op = "configure" =>
    /\ (host.last.returned = "false") <=> ~HasUridMap(host.last.features)
    /\ ~HasUridMap(host.last.features) =>
         /\ host.last.mapped = 0
         /\ ~host.last.allocated
    /\ HasUridMap(host.last.features) =>
         /\ host.last.returned = "true"
         /\ DOMAIN plugin_state.noise_profile.values = 0..(host.last.noise_profile_size - 1)
         /\ \A k \in DOMAIN plugin_state.noise_profile.values :
              plugin_state.noise_profile.values[k] = Zero



\* C16: masking thresholds are floored by the absolute threshold: after
\* compute_masking_thresholds, masking_thresholds[k] >= absolute_thresholds[k]
\* for every bin 0 < k <= half_fft_size.
MaskingFloor ==
  masking.calls >= 1 =>
    \A k \in 1..masking.half_fft_size :
      FGe(masking.masking_thresholds[k], masking.absolute_thresholds[k])

\* the floor acted: a bin whose threshold before the floor was below the
\* absolute threshold, and one whose threshold before the floor was NaN
MaskingFloorWitness ==
  /\ masking.calls >= 1
  /\ \E k \in 1..masking.half_fft_size :
       /\ Finite(masking.unfloored[k])
       /\ masking.unfloored[k] < masking.absolute_thresholds[k]
       /\ masking.masking_thresholds[k] = masking.absolute_thresholds[k]
  /\ \E k \in 1..masking.half_fft_size : masking.unfloored[k] = NaN



\* C17: one transform cycle per hop.  After N samples have been consumed,
\* exactly floor(N / hop) analysis/callback/synthesis cycles have run,
\* whatever the split of the samples into blocks: the state after every
\* sample count N is reached through every split, and the cycles of the
\* latest call are among those counted.
OneCyclePerHop ==
  /\ stft.cycles = Len(input_log) \div stft.hop
  /\ Len(last_frames) <= stft.cycles

\* two cycles of a two-sample hop, the second one in a call of its own
OneCyclePerHopWitness ==
  /\ stft.hop = 2
  /\ stft.cycles = 2
  /\ Len(last_frames) = 1



\* the order on the values wet_dry takes, FLT_MIN included: FLT_MIN is above
\* zero and below every positive value above float resolution
ExactLe(x, y) ==
  IF x = FLT_MIN THEN y = FLT_MIN \/ Sign(y) > 0
  ELSE IF y = FLT_MIN THEN Sign(x) <= 0
  ELSE Le(x, y)
ExactBetween(x, a, b) ==
  \/ ExactLe(a, x) /\ ExactLe(x, b)
  \/ ExactLe(b, x) /\ ExactLe(x, a)

\* C18 (as stated): the soft-bypass crossfade is monotone and never
\* overshoots.  Every step leaves wet_dry between its previous value and the
\* target of the step, which is to say that it does not increase
\* |target - wet_dry| and does not move wet_dry past the target, also when
\* wet_dry already equals the target; and wet_dry stays in [0, 1].
CrossfadeMonotoneExact ==
  [][ /\ ExactBetween(sp'.wet_dry, sp.wet_dry, sp'.wet_dry_target)
      /\ ExactLe(Zero, sp'.wet_dry)
      /\ ExactLe(sp'.wet_dry, One) ]_vars

\* C18 (amended): the same up to FLT_MIN.  The part of wet_dry above FLT_MIN
\* lies between its previous value and the target of the step, and wet_dry
\* stays in [0, 1].
CrossfadeMonotone ==
  [][ /\ Between(Std(sp'.wet_dry), Std(sp.wet_dry), sp'.wet_dry_target)
      /\ ExactLe(Zero, sp'.wet_dry)
      /\ ExactLe(sp'.wet_dry, One) ]_vars

\* the crossfade turned back half-way: up to 1/2 towards 1, then down to 1/4
CrossfadeMonotoneWitness ==
  /\ sp.wet_dry = Rat(1, 4)
  /\ sp.wet_dry_target = Zero



\* C19: write-back.  When the frame callback returns, positions
\* 0..half_fft_size of the caller's buffer hold the processed spectrum after
\* the soft bypass: buffer[k] = (1 - wet_dry) * input[k] + wet_dry * processed[k]
\* for every k in 0..half_fft_size, processed being the spectrum before the mix.
WriteBackHalfSpectrum ==
  \A i \in FramesOfCall :
    LET f == last_frames[i]
    IN \A k \in HalfBins :
         /\ f.output[k] = sp.processed_fft_spectrum[k]
         /\ f.output[k] = Add(Mul(Sub(One, Std(sp.wet_dry)), f.input[k]),
                              Mul(Std(sp.wet_dry), f.processed[k]))

\* the same over the bins the mix and the copy both cover
WriteBackInnerBins ==
  \A i \in FramesOfCall :
    LET f == last_frames[i]
    IN \A k \in 1..(sp.half_fft_size - 1) :
         /\ f.output[k] = sp.processed_fft_spectrum[k]
         /\ f.output[k] = Add(Mul(Sub(One, Std(sp.wet_dry)), f.input[k]),
                              Mul(Std(sp.wet_dry), f.processed[k]))



FullWet(f) ==
  /\ f.applied
  /\ Std(sp.wet_dry) = One
  /\ ~f.params.residual_listen
  /\ f.params.reduction_amount = Zero
  /\ f.params.whitening_factor = Zero

\* C20: both halfcomplex entries of a bin are scaled by the same gain.  In an
\* apply frame at full wet (wet_dry = 1, residual_listen false,
\* reduction_amount 0, whitening_factor 0), for every bin 0 < k < half_fft_size
\* the buffer handed back holds gain[k] * input[k] at index k and
\* gain[k] * input[fft_size - k] at index fft_size - k.
BothEntriesScaled ==
  \A i \in FramesOfCall :
    LET f == last_frames[i]
    IN FullWet(f) =>
         \A k \in 1..(sp.half_fft_size - 1) :
           /\ f.output[k] = Mul(f.gain[k], f.input[k])
           /\ f.output[sp.fft_size - k] = Mul(f.gain[k], f.input[sp.fft_size - k])

\* the real entries alone
RealEntriesScaled ==
  \A i \in FramesOfCall :
    LET f == last_frames[i]
    IN FullWet(f) =>
         \A k \in 1..(sp.half_fft_size - 1) : f.output[k] = Mul(f.gain[k], f.input[k])



\* the frame left the estimator, the gains and the whitening state alone
PipelineSkipped(f) ==
  /\ ~f.learned /\ ~f.applied
  /\ f.noise_after = f.noise_before
  /\ f.count_after = f.count_before
  /\ sp'.gain_spectrum = sp.gain_spectrum
  /\ sp'.residual_max_spectrum = sp.residual_max_spectrum
  /\ sp'.whitening_window_count = sp.whitening_window_count

\* the frame ran the branch its mode selects: learning, or the gains when a
\* profile is available
PipelineRun(f) ==
  /\ f.params.learn_noise => f.learned
  /\ (~f.params.learn_noise /\ is_noise_estimation_available(f.count_before)) => f.applied

FrameStep == last_frames' # <<>> /\ stft'.cycles = stft.cycles + 1

\* C21 (as stated): empty-spectrum skip.  The pipeline is skipped for a frame
\* exactly when every power bin 0..half_fft_size of the frame is <= FLT_MIN;
\* a skipped frame leaves the noise profile, frames_learned, the gains and the
\* whitening state unchanged, and a frame with any bin above FLT_MIN runs it.
EmptySkipAllBins ==
  [][ FrameStep =>
        LET f == last_frames'[Len(last_frames')]
        IN IF \A k \in 0..sp.half_fft_size : ~GtFltMin(PowerOf(f)[k])
             THEN PipelineSkipped(f)
             ELSE PipelineRun(f) /\ ~f.empty ]_vars

\* C21 (amended): the same over the bins 1..half_fft_size; bin 0 does not
\* count.
EmptySkip ==
  [][ FrameStep =>
        LET f == last_frames'[Len(last_frames')]
        IN IF \A k \in 1..sp.half_fft_size : ~GtFltMin(PowerOf(f)[k])
             THEN PipelineSkipped(f) /\ f.empty
             ELSE PipelineRun(f) /\ ~f.empty ]_vars

\* a skipped frame that has power in bin 0 only, on an engine with a profile
EmptySkipWitness ==
  \E i \in FramesOfCall :
    LET f == last_frames[i]
    IN /\ f.empty
       /\ f.count_before >= 1
       /\ GtFltMin(PowerOf(f)[0])



Bands == 0..(N_BARK_BANDS - 1)
MaskingBins == 0..masking.half_fft_size

\* C22: no log10 of zero in the masking model.  Whenever the gain
\* computation is reached for a frame (its power spectrum is not empty),
\* every power value the tonality computation passes to log10 and every
\* spreaded band energy the threshold computation passes to log10 is
\* strictly positive, and every band used as a divisor has at least one bin.
NoLogOfZero ==
  masking.calls >= 1 =>
    \A j \in Bands :
      /\ \A k \in tonality_bins(masking.bands, j) :
           spectrum_at(masking, masking.spectrum, k) > 0
      /\ spreaded_positive(masking.bands, j)
      /\ masking.bands.n_bins_per_band[j + 1] >= 1



AllZero(noise) == \A k \in DOMAIN noise : noise[k] = Zero

WhiteningFloorAllBins ==
  sp.whitening_window_count >= 1 =>
    \A k \in 0..sp.half_fft_size : Le(WHITENING_FLOOR, sp.residual_max_spectrum[k])

\* C24 (amended): the same for the bins 1..half_fft_size, which are the bins
\* whose residual is divided by residual_max.
WhiteningFloor ==
  sp.whitening_window_count >= 1 =>
    \A k \in 1..sp.half_fft_size : Le(WHITENING_FLOOR, sp.residual_max_spectrum[k])

\* whitening has run twice: one bin sits at the floor, another above it
WhiteningFloorWitness ==
  /\ sp.whitening_window_count >= 2
  /\ \E k \in 1..sp.half_fft_size : sp.residual_max_spectrum[k] = WHITENING_FLOOR
  /\ \E k \in 1..sp.half_fft_size : Lt(WHITENING_FLOOR, sp.residual_max_spectrum[k])



RECURSIVE SumSeq(_)
SumSeq(s) == IF s = <<>> THEN 0 ELSE Head(s) + SumSeq(Tail(s))

RECURSIVE SumPower(_, _)
SumPower(P, bins) ==
  IF bins = {} THEN 0
  ELSE LET k == CHOOSE k \in bins : TRUE IN P[k] + SumPower(P, bins \ {k})

\* C25: Bark bands partition the bins.  After compute_bark_spectrum, for any
\* non-decreasing bark_z, the band ends are non-decreasing and the last one is
\* half_fft_size + 1, the bins per band sum to half_fft_size + 1, every bin
\* 0..half_fft_size lies in exactly one band, bark_spectrum[j] is the sum of
\* the power of exactly the bins whose floor(bark_z) is j + 1, and the
\* threshold of its band is written to every bin.
BandsPartitionBins ==
  masking.calls >= 1 =>
    LET b == masking.bands
    IN /\ \A j \in 1..(N_BARK_BANDS - 1) :
            b.intermediate_band_bins[j] <= b.intermediate_band_bins[j + 1]
       /\ b.intermediate_band_bins[N_BARK_BANDS] = masking.half_fft_size + 1
       /\ SumSeq(b.n_bins_per_band) = masking.half_fft_size + 1
       /\ \A k \in MaskingBins :
            Cardinality({j \in Bands : k \in threshold_bins(b, j)}) = 1
       /\ \A j \in Bands :
            b.bark_spectrum[j + 1] =
              SumPower(masking.spectrum, {k \in MaskingBins : masking.bark_z[k] = j + 1})

\* the same for the mappings that keep its parts true: bin 0 below band 1,
\* every other bin in a band 1..25, and no band number in the memory past
\* the array
BandsPartitionBinsOfMapping ==
  ( /\ masking.calls >= 1
    /\ masking.bark_z[0] = 0
    /\ \A k \in 1..masking.half_fft_size : masking.bark_z[k] \in 1..N_BARK_BANDS
    /\ \A i \in DOMAIN masking.beyond_z : masking.beyond_z[i] = 0 )
  => BandsPartitionBins



\* C28: band accumulation stays in bounds.  For every non-decreasing bark_z
\* of length half_fft_size + 1, compute_bark_spectrum reads bark_z and the
\* spectrum only at indices 0..half_fft_size, and the band-fill loops of
\* compute_masking_thresholds and compute_tonality_factor only touch
\* indices 0..half_fft_size.
BandAccumulationInBounds ==
  masking.calls >= 1 =>
    /\ masking.bands.z_reads \subseteq MaskingBins
    /\ masking.bands.p_reads \subseteq MaskingBins
    /\ \A j \in Bands :
         /\ threshold_bins(masking.bands, j) \subseteq MaskingBins
         /\ tonality_bins(masking.bands, j) \subseteq MaskingBins

\* what stays in bounds whatever the mapping: the spectrum reads and the two
\* fill loops, as long as no band number lies in the memory past bark_z
FillLoopsInBounds ==
  ( /\ masking.calls >= 1
    /\ \A i \in DOMAIN masking.beyond_z : masking.beyond_z[i] = 0 )
  => /\ masking.bands.p_reads \subseteq MaskingBins
     /\ \A j \in Bands :
          /\ threshold_bins(masking.bands, j) \subseteq MaskingBins
          /\ tonality_bins(masking.bands, j) \subseteq MaskingBins



\* C26: save takes a complete read-only snapshot.  After
\* plugin_state_savestate the store holds the engine's fft_size, the value
\* of the frames_learned counter and all half_fft_size + 1 noise profile
\* values as they were at the call, and the engine's noise profile and
\* counter are unchanged.
SaveIsSnapshot ==
  host.last.op = "save" =>
    LET from == host.saved_from
        size == host.store[plugin_state.property_fft_size]
        count == host.store[plugin_state.property_block_count]
        saved == host.store[plugin_state.property_saved_noise_profile]
    IN /\ size.present /\ size.body = from.fft_size
       /\ noise_profile = from.noise_profile
       /\ frames_learned = from.frames_learned
       /\ count.present /\ count.body = from.frames_learned
       /\ saved.present
       /\ saved.size = (from.fft_size \div 2 + 1) * SizeofFloat
       /\ \A k \in 0..(from.fft_size \div 2) : saved.body[k] = from.noise_profile[k]

\* the part of the snapshot that the code does take: the fft_size is stored
\* and the engine is left as it was
SaveLeavesEngine ==
  host.last.op = "save" =>
    /\ host.store[plugin_state.property_fft_size].body = host.saved_from.fft_size
    /\ noise_profile = host.saved_from.noise_profile
    /\ frames_learned = host.saved_from.frames_learned


\* the sample at position n of the stream, zero before its start
stream_sample(n) == IF n >= 1 THEN input_log[n] ELSE Zero

\* the position in the stream of the sample that fired the latest cycle
LastCycleAt == Len(input_log) - (stft.read_position - stft.input_latency)

\* C27: the input FIFO is a sliding window of the stream.  Every time a
\* transform cycle fires, in_fifo[0..fft_size) holds the fft_size most recent
\* input samples in stream order, zeros standing for the positions before
\* the start of the stream, for any input and any split into blocks; the
\* shift by hop after the cycle keeps the last fft_size - hop samples at
\* in_fifo[0..fft_size - hop).
FifoIsSlidingWindow ==
  stft.cycles >= 1 =>
    /\ \A k \in 0..(stft.fft_size - 1) :
         stft.copied_frame[k] = stream_sample(LastCycleAt - stft.fft_size + 1 + k)
    /\ \A k \in 0..(stft.read_position - 1) :
         stft.in_fifo[k] = stream_sample(Len(input_log) - stft.read_position + 1 + k)

\* the same on memory that the allocator happened to hand out zeroed
FifoIsSlidingWindowOfZeroedMemory == heap = Zero => FifoIsSlidingWindow


====
